---- MODULE Spec2Model ----
(***************************************************************************)
(* VhostScanner: a model of the three versions of the program held in the  *)
(* repository.                                                             *)
(*   "readme"  src/README.md        sync.Map of Findings, pooled clients   *)
(*   "slice"   src/unnamed/part_000 package-level slice, DefaultTransport  *)
(*   "maingo"  src/main.go          no Findings, DefaultTransport          *)
(* Strings are sequences of one-character strings, so that TrimSpace,      *)
(* Split, Trim, Index and ReplaceAll are computed as the Go code computes  *)
(* them.                                                                   *)
(***************************************************************************)
EXTENDS Integers, Sequences, FiniteSets, TLC

VARIABLES
    version,       \* which of the three programs runs
    input,         \* the lines of the file given with -f (fixed for a run)
    lineNo,        \* lines consumed by scanner.Scan()
    tlsxResults,   \* []TLSxResults built by the parse loop
    pcMain,        \* position of main
    recIdx,        \* index of the record of `for _, t := range tlsxResults`
    curIPs,        \* t.IP of the current record (t is the loop's copy)
    resolved,      \* what net.LookupIP gave main for each record so far
    sanIdx,        \* position of `for _, s := range t.SAN`
    ipIdx,         \* position of `for _, i := range t.IP`
    wg,            \* the sync.WaitGroup counter
    tasks,         \* the goroutines running checkVHost, in launch order
    transports,    \* the http.Transport of every http.Client in existence
    clientPool,    \* the clients lying in clientPool (README version)
    finalResults,  \* the Findings: sync.Map (readme) or slice (slice)
    panicked,      \* a goroutine panicked: the Go runtime ends the process
    output         \* what main serialized to the output file

vars == <<version, input, lineNo, tlsxResults, pcMain, recIdx, curIPs,
          resolved, sanIdx, ipIdx, wg, tasks, transports, clientPool,
          finalResults, panicked, output>>

-----------------------------------------------------------------------------
(* Bounds of the model                                                     *)

MaxLines == 3        \* lines of an input file in the parse-only runs
MaxTasks == 2        \* probe tasks the DNS answers of one run give rise to
MaxLaunch == 4       \* the same in the runs of main's launch loop alone
MaxParts == 3        \* markers and text a response body is made of

-----------------------------------------------------------------------------
(* Strings                                                                 *)

Str1(c) == <<c>>

SP == " "
TAB == "\t"
WhiteSpace == {SP, TAB}

RECURSIVE TrimLeft(_, _)
TrimLeft(s, cutset) ==
    IF s # <<>> /\ Head(s) \in cutset THEN TrimLeft(Tail(s), cutset) ELSE s

RECURSIVE TrimRight(_, _)
TrimRight(s, cutset) ==
    IF s # <<>> /\ s[Len(s)] \in cutset
        THEN TrimRight(SubSeq(s, 1, Len(s) - 1), cutset)
        ELSE s

\* strings.Trim(s, cutset)
Trim(s, cutset) == TrimRight(TrimLeft(s, cutset), cutset)

\* strings.TrimSpace(s)
TrimSpace(s) == Trim(s, WhiteSpace)

HasPrefix(s, p) == Len(s) >= Len(p) /\ SubSeq(s, 1, Len(p)) = p

\* strings.Index(s, sub): the 0-based offset of the first occurrence, or -1
Index(s, sub) ==
    LET hits == {k \in 0..(Len(s) - Len(sub)) :
                    SubSeq(s, k + 1, k + Len(sub)) = sub}
    IN  IF hits = {} THEN -1
        ELSE CHOOSE k \in hits : \A j \in hits : k <= j

\* strings.Contains(s, sub)
Contains(s, sub) == Index(s, sub) >= 0

\* strings.Split(s, " ")
RECURSIVE Split(_, _)
Split(s, sep) ==
    LET k == Index(s, Str1(sep))
    IN  IF k < 0 THEN <<s>>
        ELSE <<SubSeq(s, 1, k)>> \o Split(SubSeq(s, k + 2, Len(s)), sep)

\* strings.ReplaceAll(s, old, ""), old non-empty
RECURSIVE RemoveAll(_, _)
RemoveAll(s, old) ==
    LET k == Index(s, old)
    IN  IF k < 0 THEN s
        ELSE SubSeq(s, 1, k) \o RemoveAll(SubSeq(s, k + Len(old) + 1, Len(s)), old)

\* all sequences over S of length lo..hi
SeqsOf(S, lo, hi) == UNION {[1..n -> S] : n \in lo..hi}

Range(f) == {f[x] : x \in DOMAIN f}

-----------------------------------------------------------------------------
(* The parse loop                                                          *)

NewRecord(host, san) == [Host |-> host, IP |-> <<>>, SAN |-> <<san>>]

\* a host search that looks at the last record only
FirstHostLastOnly(recs, host) ==
    IF Len(recs) > 0 /\ recs[Len(recs)].Host = host THEN Len(recs) ELSE 0

\* index of the first record whose Host is host, 0 when there is none
\* (the range loop breaks at the first match)
FirstHost(recs, host) ==
    LET hits == {k \in 1..Len(recs) : recs[k].Host = host}
    IN  IF hits = {} THEN 0 ELSE CHOOSE k \in hits : \A j \in hits : k <= j

\* One turn of the scan loop of src/main.go and src/unnamed/part_000: the
\* SAN search has its own flag, sanFound.
ParseLineGo(recs, raw) ==
    LET line == TrimSpace(raw)
        parts == Split(line, SP)
    IN  IF line = <<>> THEN recs
        ELSE IF Len(parts) < 2 THEN recs
        ELSE LET san == Trim(parts[2], {"[", "]"})
                 k == FirstHost(recs, parts[1])
             IN  IF Len(recs) = 0 THEN Append(recs, NewRecord(parts[1], san))
                 ELSE IF k # 0
                     THEN LET sanFound == \E j \in 1..Len(recs[k].SAN) :
                                               recs[k].SAN[j] = san
                          IN  IF ~sanFound
                                  THEN [recs EXCEPT ![k].SAN = Append(@, san)]
                                  ELSE recs
                     ELSE Append(recs, NewRecord(parts[1], san))

\* One turn of the scan loop of src/README.md: the SAN search reuses the
\* flag `found`, which the host match has already set.
ParseLineReadme(recs, raw) ==
    LET line == TrimSpace(raw)
        parts == Split(line, SP)
    IN  IF line = <<>> THEN recs
        ELSE IF Len(parts) < 2 THEN recs
        ELSE LET san == Trim(parts[2], {"[", "]"})
                 k == FirstHost(recs, parts[1])
             IN  IF Len(recs) = 0 THEN Append(recs, NewRecord(parts[1], san))
                 ELSE IF k # 0
                     THEN LET found1 == TRUE
                              found2 == found1 \/ (\E j \in 1..Len(recs[k].SAN) :
                                                       recs[k].SAN[j] = san)
                          IN  IF ~found2
                                  THEN [recs EXCEPT ![k].SAN = Append(@, san)]
                                  ELSE recs
                     ELSE Append(recs, NewRecord(parts[1], san))

ParseLine(recs, raw) ==
    IF version = "readme" THEN ParseLineReadme(recs, raw)
    ELSE ParseLineGo(recs, raw)

\* scanner.Scan() returned true: one line is parsed
ScanLine ==
    /\ pcMain = "parse"
    /\ lineNo < Len(input)
    /\ lineNo' = lineNo + 1
    /\ tlsxResults' = ParseLine(tlsxResults, input[lineNo + 1])
    /\ UNCHANGED <<version, input, resolved,
                   pcMain, recIdx, curIPs, sanIdx, ipIdx, wg,
                   tasks, transports, clientPool, finalResults, panicked,
                   output>>

\* scanner.Scan() returned false at the end of the file
ScanEOF ==
    /\ pcMain = "parse"
    /\ lineNo = Len(input)
    /\ pcMain' = "resolve"
    /\ recIdx' = 1
    /\ UNCHANGED <<version, input, resolved,
                   lineNo, tlsxResults, curIPs, sanIdx, ipIdx,
                   wg, tasks, transports, clientPool, finalResults, panicked,
                   output>>

-----------------------------------------------------------------------------
(* The network and the data a probe sees                                   *)

PORT == <<":", "4", "4", "3">>
HTTPS == <<"h", "t", "t", "p", "s", ":", "/", "/">>
OPEN == <<"<", "t", "i", "t", "l", "e", ">">>
CLOSE == <<"<", "/", "t", "i", "t", "l", "e", ">">>

\* what net.LookupIP returns on success: one address or two
IPLists == { <<Str1("1")>>, <<Str1("2")>>, <<Str1("1"), Str1("2")>> }

DomainChars == {"a", "b", "c", "h", "."}

\* net.LookupIP fails without asking a resolver for a name that is no
\* domain name; for the other names the answer is the environment's
ValidDomain(h) == h # <<>> /\ \A k \in 1..Len(h) : h[k] \in DomainChars

HexChars == {"0", "1", "2", "3", "4", "5", "6", "7", "8", "9",
             "a", "b", "c", "d", "e", "f"}

\* http.NewRequest("GET", "https://"+s+"/", nil) fails when the URL does not
\* parse: a "%" of the host that does not start a two-digit escape
BadURL(s) ==
    \E k \in 1..Len(s) :
        /\ s[k] = "%"
        /\ ~(k + 2 <= Len(s) /\ s[k + 1] \in HexChars /\ s[k + 2] \in HexChars)

\* the responses a server sends: status line and body
Responses ==
    { [status |-> "200 OK", body |-> OPEN \o <<"A">> \o CLOSE],
      [status |-> "404 Not Found", body |-> <<>>],
      [status |-> "200 OK", body |-> OPEN \o <<"A">>] }

\* what io.ReadAll has read when it fails: nothing, or the start of the body
Partial(body) ==
    {<<>>} \cup {r.body : r \in {q \in Responses :
                     Len(q.body) < Len(body) /\ HasPrefix(body, q.body)}}

\* string(body)[start+len("<title>") : end] panics (slice bounds out of
\* range) when end lies before start+7; end is -1 when "</title>" is absent
TitlePanics(body) ==
    /\ Contains(body, OPEN)
    /\ Index(body, CLOSE) < Index(body, OPEN) + Len(OPEN)

ExtractTitle(body) ==
    IF Contains(body, OPEN)
        THEN LET start == Index(body, OPEN)
                 end == Index(body, CLOSE)
             IN  SubSeq(body, start + Len(OPEN) + 1, end)
        ELSE <<>>

\* the host main resolves for a record
StripHost(h) ==
    IF version = "readme"
        THEN RemoveAll(RemoveAll(h, HTTPS), PORT)
        ELSE RemoveAll(h, PORT)   \* the first Replace's result is overwritten

-----------------------------------------------------------------------------
(* Transports, clients and the Findings collection                         *)

NoDial == [set |-> FALSE, s |-> <<>>, i |-> <<>>]
NewTransport == [DialContext |-> NoDial, idle |-> {}]

\* the closure assigned to DialContext, applied to addr
DialTarget(d, addr) ==
    IF d.set /\ addr = d.s \o PORT THEN d.i \o PORT ELSE addr

NewTask(s, i) ==
    [s |-> s, i |-> i, pc |-> "dial", client |-> 0, tlsDials |-> 0,
     tls |-> "", req |-> "", do |-> "", dialAddr |-> <<>>, connAddr |-> <<>>,
     status |-> "", read |-> "", body |-> <<>>, dns |-> "", stored |-> FALSE,
     snap |-> <<>>]

Result(t) ==
    [ResponseStatus |-> tasks[t].status, Host |-> tasks[t].s, IP |-> tasks[t].i,
     Title |-> ExtractTitle(tasks[t].body)]

\* a store that drops what other writers stored
MapStoreLost(m, key, value) == [k \in {key} |-> value]

\* sync.Map.Store(key, value)
MapStore(m, key, value) ==
    [k \in DOMAIN m \cup {key} |-> IF k = key THEN value ELSE m[k]]

Running == ~panicked

-----------------------------------------------------------------------------
(* main after the parse loop                                               *)

\* for _, t := range tlsxResults: net.LookupIP(host), README version: a
\* failed lookup skips the record. The answers are drawn so that the run
\* has at most cap tasks.
ResolveReadmeUpTo(cap) ==
    /\ Running /\ version = "readme"
    /\ pcMain = "resolve" /\ recIdx <= Len(tlsxResults)
    /\ LET t == tlsxResults[recIdx]
           host == StripHost(t.Host)
       IN  \E ans \in {<<>>} \cup IPLists :
              /\ ans # <<>> => ValidDomain(host)
              /\ resolved' = Append(resolved, ans)
              /\ Len(tasks) + Len(t.SAN) * Len(ans) <= cap
              /\ IF ans = <<>>
                    THEN /\ recIdx' = recIdx + 1
                         /\ UNCHANGED <<pcMain, curIPs, sanIdx, ipIdx>>
                    ELSE /\ curIPs' = ans
                         /\ sanIdx' = 1 /\ ipIdx' = 1
                         /\ pcMain' = "launch"
                         /\ UNCHANGED recIdx
    /\ UNCHANGED <<version, input, lineNo, tlsxResults, wg, tasks, transports,
                   clientPool, finalResults, panicked, output>>

ResolveReadme == ResolveReadmeUpTo(MaxTasks)

\* the same in src/main.go and src/unnamed/part_000: a failed lookup is
\* logged and the loops run over the empty ip
ResolveGoUpTo(cap) ==
    /\ Running /\ version # "readme"
    /\ pcMain = "resolve" /\ recIdx <= Len(tlsxResults)
    /\ LET t == tlsxResults[recIdx]
           host == StripHost(t.Host)
       IN  \E ans \in {<<>>} \cup IPLists :
              /\ ans # <<>> => ValidDomain(host)
              /\ resolved' = Append(resolved, ans)
              /\ Len(tasks) + Len(t.SAN) * Len(ans) <= cap
              /\ curIPs' = ans
              /\ IF Len(t.SAN) = 0 \/ Len(ans) = 0
                    THEN /\ recIdx' = recIdx + 1
                         /\ UNCHANGED <<pcMain, sanIdx, ipIdx>>
                    ELSE /\ sanIdx' = 1 /\ ipIdx' = 1
                         /\ pcMain' = "launch"
                         /\ UNCHANGED recIdx
    /\ UNCHANGED <<version, input, lineNo, tlsxResults, wg, tasks, transports,
                   clientPool, finalResults, panicked, output>>

ResolveGo == ResolveGoUpTo(MaxTasks)

\* a launch loop that leaves the range over t.SAN after its first name
LaunchFirstSAN ==
    /\ Running
    /\ pcMain = "launch"
    /\ LET t == tlsxResults[recIdx]
       IN  /\ wg' = wg + 1
           /\ tasks' = Append(tasks, NewTask(t.SAN[sanIdx], curIPs[ipIdx]))
           /\ IF ipIdx < Len(curIPs)
                 THEN /\ ipIdx' = ipIdx + 1
                      /\ UNCHANGED <<sanIdx, recIdx, pcMain>>
                 ELSE /\ recIdx' = recIdx + 1
                      /\ pcMain' = "resolve"
                      /\ UNCHANGED <<sanIdx, ipIdx>>
    /\ UNCHANGED <<version, input, resolved,
                   lineNo, tlsxResults, curIPs, transports,
                   clientPool, finalResults, panicked, output>>

\* wg.Add(1); go checkVHost(dialer, s, i, ...)
Launch ==
    /\ Running
    /\ pcMain = "launch"
    /\ LET t == tlsxResults[recIdx]
       IN  /\ wg' = wg + 1
           /\ tasks' = Append(tasks, NewTask(t.SAN[sanIdx], curIPs[ipIdx]))
           /\ IF ipIdx < Len(curIPs)
                 THEN /\ ipIdx' = ipIdx + 1
                      /\ UNCHANGED <<sanIdx, recIdx, pcMain>>
                 ELSE IF sanIdx < Len(t.SAN)
                     THEN /\ sanIdx' = sanIdx + 1 /\ ipIdx' = 1
                          /\ UNCHANGED <<recIdx, pcMain>>
                     ELSE /\ recIdx' = recIdx + 1
                          /\ pcMain' = "resolve"
                          /\ UNCHANGED <<sanIdx, ipIdx>>
    /\ UNCHANGED <<version, input, resolved,
                   lineNo, tlsxResults, curIPs, transports,
                   clientPool, finalResults, panicked, output>>

\* the range over tlsxResults is exhausted: main calls wg.Wait()
RangeDone ==
    /\ Running
    /\ pcMain = "resolve" /\ recIdx > Len(tlsxResults)
    /\ pcMain' = "wait"
    /\ UNCHANGED <<version, input, resolved,
                   lineNo, tlsxResults, recIdx, curIPs, sanIdx,
                   ipIdx, wg, tasks, transports, clientPool, finalResults,
                   panicked, output>>

\* a wait that returns whatever the counter is
WaitNoBarrier ==
    /\ Running
    /\ pcMain = "wait"
    /\ pcMain' = IF version = "maingo" THEN "done" ELSE "create"
    /\ UNCHANGED <<version, input, resolved,
                   lineNo, tlsxResults, recIdx, curIPs, sanIdx,
                   ipIdx, wg, tasks, transports, clientPool, finalResults,
                   panicked, output>>

\* wg.Wait() returns when the counter is zero
Wait ==
    /\ Running
    /\ pcMain = "wait" /\ wg = 0
    /\ pcMain' = IF version = "maingo" THEN "done" ELSE "create"
    /\ UNCHANGED <<version, input, resolved,
                   lineNo, tlsxResults, recIdx, curIPs, sanIdx,
                   ipIdx, wg, tasks, transports, clientPool, finalResults,
                   panicked, output>>

\* os.Create(writeFilename); an error is fatal
CreateFile ==
    /\ Running
    /\ pcMain = "create"
    /\ \E ok \in BOOLEAN : pcMain' = IF ok THEN "drain" ELSE "fatal"
    /\ UNCHANGED <<version, input, resolved,
                   lineNo, tlsxResults, recIdx, curIPs, sanIdx,
                   ipIdx, wg, tasks, transports, clientPool, finalResults,
                   panicked, output>>

\* finalResults.Range(enc.Encode) / for _, r := range finalResults
Drain ==
    /\ Running
    /\ pcMain = "drain"
    /\ output' = IF version = "readme" THEN Range(finalResults) ELSE finalResults
    /\ pcMain' = "done"
    /\ UNCHANGED <<version, input, resolved,
                   lineNo, tlsxResults, recIdx, curIPs, sanIdx,
                   ipIdx, wg, tasks, transports, clientPool, finalResults,
                   panicked>>

-----------------------------------------------------------------------------
(* checkVHost, one goroutine per task                                      *)

\* what a step of main leaves alone
MainVars == <<version, input, lineNo, tlsxResults, pcMain, recIdx, curIPs,
              resolved, sanIdx, ipIdx, output>>

\* return: the deferred resp.Body.Close(), conn.Close() and wg.Done() run.
\* The response goes out of scope; it is kept on record for a task that
\* stored a Finding, to compare the Finding with it.
Return(t, rec) ==
    /\ tasks' = [tasks EXCEPT ![t] =
          [rec EXCEPT !.pc = "done",
                      !.status = IF rec.stored THEN @ ELSE "",
                      !.body = IF rec.stored THEN @ ELSE <<>>]]
    /\ wg' = wg - 1

\* a dial whose error branch does not return
TLSDialNoReturn(t) ==
    /\ Running
    /\ tasks[t].pc = "dial"
    /\ \E ok \in BOOLEAN :
          tasks' = [tasks EXCEPT ![t].tlsDials = @ + 1,
                                 ![t].tls = IF ok THEN "ok" ELSE "err",
                                 ![t].pc = "override"]
    /\ UNCHANGED <<MainVars, wg, transports, clientPool, finalResults, panicked>>

\* tls.DialWithDialer(dialer, "tcp", i+":443", ...)
TLSDial(t) ==
    /\ Running
    /\ tasks[t].pc = "dial"
    /\ \E ok \in BOOLEAN :
          LET rec == [tasks[t] EXCEPT !.tlsDials = @ + 1,
                                      !.tls = IF ok THEN "ok" ELSE "err"]
          IN  IF ok
                 THEN /\ tasks' = [tasks EXCEPT ![t] = [rec EXCEPT !.pc = "override"]]
                      /\ UNCHANGED wg
                 ELSE Return(t, rec)
    /\ UNCHANGED <<MainVars, transports, clientPool, finalResults, panicked>>

\* a Get that leaves the client it hands out in the pool
GetClientShared(t) ==
    /\ Running
    /\ tasks[t].pc = "override"
    /\ \E c \in clientPool \cup {Len(transports) + 1} :
          /\ UNCHANGED clientPool
          /\ transports' =
                LET all == IF c > Len(transports)
                              THEN Append(transports, NewTransport)
                              ELSE transports
                IN  [all EXCEPT ![c].DialContext =
                        [set |-> TRUE, s |-> tasks[t].s, i |-> tasks[t].i]]
          /\ IF BadURL(tasks[t].s)
                THEN Return(t, [tasks[t] EXCEPT !.client = c, !.req = "err"])
                ELSE /\ tasks' = [tasks EXCEPT ![t].client = c, ![t].req = "ok",
                                               ![t].pc = "do"]
                     /\ UNCHANGED wg
    /\ UNCHANGED <<MainVars, finalResults, panicked>>

\* README version: client := clientPool.Get().(*http.Client), a pooled
\* client or a New one; its transport's DialContext is set to this probe's
\* closure; http.NewRequestWithContext(...), whose error returns (the client
\* is not put back)
GetClient(t) ==
    /\ Running
    /\ tasks[t].pc = "override"
    /\ \E c \in clientPool \cup {Len(transports) + 1} :
          /\ clientPool' = clientPool \ {c}
          /\ transports' =
                LET all == IF c > Len(transports)
                              THEN Append(transports, NewTransport)
                              ELSE transports
                IN  [all EXCEPT ![c].DialContext =
                        [set |-> TRUE, s |-> tasks[t].s, i |-> tasks[t].i]]
          /\ IF BadURL(tasks[t].s)
                THEN Return(t, [tasks[t] EXCEPT !.client = c, !.req = "err"])
                ELSE /\ tasks' = [tasks EXCEPT ![t].client = c, ![t].req = "ok",
                                               ![t].pc = "do"]
                     /\ UNCHANGED wg
    /\ UNCHANGED <<MainVars, finalResults, panicked>>

\* src/main.go and src/unnamed/part_000:
\* http.DefaultTransport.(*http.Transport).DialContext = func...: every task
\* assigns the field of the one shared transport; http.NewRequest(...),
\* whose error is logged, and httpReq.Host = s then dereferences the nil
\* request
SetDefaultDial(t) ==
    /\ Running
    /\ tasks[t].pc = "override"
    /\ transports' = [transports EXCEPT ![1].DialContext =
                         [set |-> TRUE, s |-> tasks[t].s, i |-> tasks[t].i]]
    /\ IF BadURL(tasks[t].s)
          THEN /\ tasks' = [tasks EXCEPT ![t].client = 1, ![t].req = "err",
                                         ![t].pc = "panic"]
               /\ panicked' = TRUE
          ELSE /\ tasks' = [tasks EXCEPT ![t].client = 1, ![t].req = "ok",
                                         ![t].pc = "do"]
               /\ UNCHANGED panicked
    /\ UNCHANGED <<MainVars, wg, clientPool, finalResults>>

\* client.Do(httpReq): the transport takes an idle connection it keeps for
\* the request's address s:443, or dials through its DialContext; the
\* server of that connection answers, or the exchange fails
ClientDo(t) ==
    /\ Running
    /\ tasks[t].pc = "do"
    /\ LET c == tasks[t].client
           addr == tasks[t].s \o PORT
           kept == {k \in transports[c].idle : k.addr = addr}
           dialed == DialTarget(transports[c].DialContext, addr)
       IN  \E how \in {[to |-> dialed, reused |-> FALSE]}
                        \cup {[to |-> k.to, reused |-> TRUE] : k \in kept} :
              LET rec == [tasks[t] EXCEPT
                             !.dialAddr = IF how.reused THEN <<>> ELSE how.to,
                             !.connAddr = how.to]
              IN  /\ transports' = [transports EXCEPT ![c].idle =
                        IF how.reused THEN @ \ {[addr |-> addr, to |-> how.to]}
                        ELSE @]
                  /\ \/ \E r \in Responses :
                           /\ tasks' = [tasks EXCEPT ![t] =
                                 [rec EXCEPT !.do = "ok", !.status = r.status,
                                             !.body = r.body, !.pc = "read"]]
                           /\ UNCHANGED wg
                     \/ Return(t, [rec EXCEPT !.do = "err"])
    /\ UNCHANGED <<MainVars, clientPool, finalResults, panicked>>

\* io.ReadAll(resp.Body): it returns the bytes read, never nil, with or
\* without an error; a body read to its end leaves the connection idle in
\* the transport. README version: an error returns.
ReadAllReadme(t) ==
    /\ Running
    /\ tasks[t].pc = "read"
    /\ \/ /\ tasks' = [tasks EXCEPT ![t].read = "ok", ![t].pc = "lookup"]
          /\ transports' = [transports EXCEPT ![tasks[t].client].idle =
                @ \cup {[addr |-> tasks[t].s \o PORT, to |-> tasks[t].connAddr]}]
          /\ UNCHANGED wg
       \/ /\ Return(t, [tasks[t] EXCEPT !.read = "err"])
          /\ UNCHANGED transports
    /\ UNCHANGED <<MainVars, clientPool, finalResults, panicked>>

\* the same in src/main.go and src/unnamed/part_000: an error is logged and
\* the code goes on to `if body != nil`, which holds
ReadAllGo(t) ==
    /\ Running
    /\ tasks[t].pc = "read"
    /\ \/ /\ tasks' = [tasks EXCEPT ![t].read = "ok", ![t].pc = "lookup"]
          /\ transports' = [transports EXCEPT ![tasks[t].client].idle =
                @ \cup {[addr |-> tasks[t].s \o PORT, to |-> tasks[t].connAddr]}]
       \/ /\ \E part \in Partial(tasks[t].body) :
                tasks' = [tasks EXCEPT ![t].read = "err", ![t].body = part,
                                       ![t].pc = "lookup"]
          /\ UNCHANGED transports
    /\ UNCHANGED <<MainVars, wg, clientPool, finalResults, panicked>>

\* a classifier that tests err == nil
LookupInverted(t) ==
    /\ Running
    /\ tasks[t].pc = "lookup"
    /\ \E resolves \in BOOLEAN :
          /\ resolves => ValidDomain(tasks[t].s)
          /\ tasks' = [tasks EXCEPT ![t].dns = IF resolves THEN "ok" ELSE "err",
                                    ![t].pc = IF resolves THEN "store" ELSE "put"]
    /\ UNCHANGED <<MainVars, wg, transports, clientPool, finalResults, panicked>>

\* a classifier whose answer is not looked at
LookupUnchecked(t) ==
    /\ Running
    /\ tasks[t].pc = "lookup"
    /\ \E resolves \in BOOLEAN :
          /\ resolves => ValidDomain(tasks[t].s)
          /\ tasks' = [tasks EXCEPT ![t].dns = IF resolves THEN "ok" ELSE "err",
                                    ![t].pc = "store"]
    /\ UNCHANGED <<MainVars, wg, transports, clientPool, finalResults, panicked>>

\* README version: _, err = net.LookupIP(s), the Resolvability Classifier
LookupReadme(t) ==
    /\ Running
    /\ tasks[t].pc = "lookup"
    /\ \E resolves \in BOOLEAN :
          /\ resolves => ValidDomain(tasks[t].s)
          /\ tasks' = [tasks EXCEPT ![t].dns = IF resolves THEN "ok" ELSE "err",
                                    ![t].pc = IF resolves THEN "put" ELSE "store"]
    /\ UNCHANGED <<MainVars, wg, transports, clientPool, finalResults, panicked>>

\* the same in src/main.go and src/unnamed/part_000; src/main.go only
\* prints the interesting vhost
LookupGo(t) ==
    /\ Running
    /\ tasks[t].pc = "lookup"
    /\ \E resolves \in BOOLEAN :
          /\ resolves => ValidDomain(tasks[t].s)
          /\ LET rec == [tasks[t] EXCEPT !.dns = IF resolves THEN "ok" ELSE "err"]
             IN  IF version = "slice" /\ ~resolves
                    THEN /\ tasks' = [tasks EXCEPT ![t] = [rec EXCEPT !.pc = "store"]]
                         /\ UNCHANGED wg
                    ELSE Return(t, rec)
    /\ UNCHANGED <<MainVars, transports, clientPool, finalResults, panicked>>

\* README version: the title is cut out of the body and
\* finalResults.Store(s, result) runs
StoreFinding(t) ==
    /\ Running
    /\ tasks[t].pc = "store"
    /\ IF TitlePanics(tasks[t].body)
          THEN /\ panicked' = TRUE
               /\ tasks' = [tasks EXCEPT ![t].pc = "panic"]
               /\ UNCHANGED finalResults
          ELSE /\ finalResults' = MapStore(finalResults, tasks[t].s, Result(t))
               /\ tasks' = [tasks EXCEPT ![t].stored = TRUE, ![t].pc = "put"]
               /\ UNCHANGED panicked
    /\ UNCHANGED <<MainVars, wg, transports, clientPool>>

\* clientPool.Put(client), then the function returns
PutClient(t) ==
    /\ Running
    /\ tasks[t].pc = "put"
    /\ clientPool' = clientPool \cup {tasks[t].client}
    /\ Return(t, tasks[t])
    /\ UNCHANGED <<MainVars, transports, finalResults, panicked>>

\* src/unnamed/part_000: finalResults = append(finalResults, ...) without a
\* lock. The title is cut out, then append reads the slice ...
AppendLoad(t) ==
    /\ Running
    /\ tasks[t].pc = "store"
    /\ IF TitlePanics(tasks[t].body)
          THEN /\ panicked' = TRUE
               /\ tasks' = [tasks EXCEPT ![t].pc = "panic"]
          ELSE /\ tasks' = [tasks EXCEPT ![t].snap = finalResults, ![t].pc = "append"]
               /\ UNCHANGED panicked
    /\ UNCHANGED <<MainVars, wg, transports, clientPool, finalResults>>

\* ... and the result, built on what was read, is assigned to the variable
AppendStore(t) ==
    /\ Running
    /\ tasks[t].pc = "append"
    /\ finalResults' = Append(tasks[t].snap, Result(t))
    /\ Return(t, [tasks[t] EXCEPT !.stored = TRUE, !.snap = <<>>])
    /\ UNCHANGED <<MainVars, transports, clientPool, panicked>>

-----------------------------------------------------------------------------
(* Input files                                                             *)

\* lines of tlsx output and of noise, for the parse-only runs
ParseLines ==
    { <<"a", " ", "[", "x", "]">>,
      <<"a", " ", "[", "y", "]">>,
      <<"b", " ", "[", "x", "]">>,
      <<"a", " ", "x">>,
      <<"a">>,
      <<" ", "\t">>,
      <<"\t", "b", " ", "[", "y", "]", " ">>,
      <<"a", " ", " ", "y">> }

Versions == {"readme", "slice", "maingo"}

InitCommon ==
    /\ lineNo = 0
    /\ tlsxResults = <<>>
    /\ pcMain = "parse"
    /\ recIdx = 0
    /\ curIPs = <<>>
    /\ resolved = <<>>
    /\ sanIdx = 0
    /\ ipIdx = 0
    /\ wg = 0
    /\ tasks = <<>>
    /\ clientPool = {}
    /\ finalResults = <<>>
    /\ panicked = FALSE
    /\ output = <<>>

InitParse ==
    /\ version \in Versions
    /\ input \in SeqsOf(ParseLines, 0, MaxLines)
    /\ transports = <<>>
    /\ InitCommon

NextParse == ScanLine \/ ScanEOF

SpecParse == InitParse /\ [][NextParse]_vars

\* input files of the full runs, lines of tlsx output
LineAA == <<"a", " ", "[", "a", "]">>
LineAB == <<"a", " ", "[", "b", "]">>
LineBA == <<"b", " ", "[", "a", "]">>
LineAPct == <<"a", " ", "[", "%", "]">>
LineUrlA == HTTPS \o <<"a">> \o PORT \o <<" ", "[", "a", "]">>

ProbeInputs ==
    { <<LineAA>>,            \* a hostname that is its own SAN
      <<LineAPct>>,          \* a SAN that is no URL host
      <<LineUrlA>>,          \* a hostname written https://a:443
      <<LineAA, LineAA>>,    \* a repeated line
      <<LineAA, LineAB>>,    \* one hostname, two SANs
      <<LineAB, LineBA>>,    \* two hostnames, distinct SANs
      <<LineAA, LineBA>> }   \* two hostnames, the same SAN

InitReadme ==
    /\ version = "readme"
    /\ input \in ProbeInputs
    /\ transports = <<>>
    /\ InitCommon

InitSlice ==
    /\ version = "slice"
    /\ input \in ProbeInputs
    /\ transports = <<NewTransport>>   \* http.DefaultTransport
    /\ InitCommon

InitMainGo ==
    /\ version = "maingo"
    /\ input \in ProbeInputs
    /\ transports = <<NewTransport>>   \* http.DefaultTransport
    /\ InitCommon

Tasks == 1..Len(tasks)

NextReadme ==
    \/ ScanLine \/ ScanEOF \/ ResolveReadme \/ Launch \/ RangeDone
    \/ Wait \/ CreateFile \/ Drain
    \/ \E t \in Tasks : TLSDial(t)
    \/ \E t \in Tasks : GetClient(t)
    \/ \E t \in Tasks : ClientDo(t)
    \/ \E t \in Tasks : ReadAllReadme(t)
    \/ \E t \in Tasks : LookupReadme(t)
    \/ \E t \in Tasks : StoreFinding(t)
    \/ \E t \in Tasks : PutClient(t)

NextSlice ==
    \/ ScanLine \/ ScanEOF \/ ResolveGo \/ Launch \/ RangeDone
    \/ Wait \/ CreateFile \/ Drain
    \/ \E t \in Tasks : TLSDial(t)
    \/ \E t \in Tasks : SetDefaultDial(t)
    \/ \E t \in Tasks : ClientDo(t)
    \/ \E t \in Tasks : ReadAllGo(t)
    \/ \E t \in Tasks : LookupGo(t)
    \/ \E t \in Tasks : AppendLoad(t)
    \/ \E t \in Tasks : AppendStore(t)

NextMainGo ==
    \/ ScanLine \/ ScanEOF \/ ResolveGo \/ Launch \/ RangeDone \/ Wait
    \/ \E t \in Tasks : TLSDial(t)
    \/ \E t \in Tasks : SetDefaultDial(t)
    \/ \E t \in Tasks : ClientDo(t)
    \/ \E t \in Tasks : ReadAllGo(t)
    \/ \E t \in Tasks : LookupGo(t)

\* checkVHost from the title extraction on, for response bodies made of
\* the two markers and text: the one probe of the input `a [a]` has read
\* the body and its name failed the classifier's lookup
RECURSIVE Concat(_)
Concat(parts) ==
    IF parts = <<>> THEN <<>> ELSE Head(parts) \o Concat(Tail(parts))

TitleBodies == { Concat(p) : p \in SeqsOf({OPEN, CLOSE, <<"A">>}, 0, MaxParts) }

InitTitle ==
    /\ version \in {"readme", "slice"}
    /\ input = <<LineAA>>
    /\ lineNo = 1
    /\ tlsxResults = <<NewRecord(Str1("a"), Str1("a"))>>
    /\ pcMain = "wait"
    /\ recIdx = 2
    /\ curIPs = <<Str1("1")>>
    /\ resolved = << <<Str1("1")>> >>
    /\ sanIdx = 1
    /\ ipIdx = 1
    /\ wg = 1
    /\ \E b \in TitleBodies :
          tasks = << [NewTask(Str1("a"), Str1("1")) EXCEPT
                        !.pc = "store", !.client = 1, !.tlsDials = 1,
                        !.tls = "ok", !.req = "ok", !.do = "ok",
                        !.dialAddr = Str1("1") \o PORT,
                        !.connAddr = Str1("1") \o PORT,
                        !.status = "200 OK", !.read = "ok", !.body = b,
                        !.dns = "err"] >>
    /\ transports =
          << [DialContext |-> [set |-> TRUE, s |-> Str1("a"), i |-> Str1("1")],
              idle |-> {[addr |-> Str1("a") \o PORT, to |-> Str1("1") \o PORT]}] >>
    /\ clientPool = {}
    /\ finalResults = <<>>
    /\ panicked = FALSE
    /\ output = <<>>

NextTitle ==
    \/ \E t \in Tasks : StoreFinding(t) /\ version = "readme"
    \/ \E t \in Tasks : PutClient(t)
    \/ \E t \in Tasks : AppendLoad(t) /\ version = "slice"
    \/ \E t \in Tasks : AppendStore(t)
    \/ Wait \/ CreateFile \/ Drain

SpecTitle == InitTitle /\ [][NextTitle]_vars

\* main up to wg.Wait() with no goroutine scheduled yet, any version
LaunchInputs == ProbeInputs \cup { <<LineAA, LineAB, LineBA>> }

InitLaunch ==
    /\ version \in Versions
    /\ input \in LaunchInputs
    /\ transports = IF version = "readme" THEN <<>> ELSE <<NewTransport>>
    /\ InitCommon

NextLaunch ==
    \/ ScanLine \/ ScanEOF
    \/ ResolveReadmeUpTo(MaxLaunch) \/ ResolveGoUpTo(MaxLaunch)
    \/ Launch \/ RangeDone

SpecLaunch == InitLaunch /\ [][NextLaunch]_vars

SpecReadme == InitReadme /\ [][NextReadme]_vars
SpecSlice == InitSlice /\ [][NextSlice]_vars

\* the README version under fair scheduling, with every blocking call
\* (tls.DialWithDialer, client.Do, io.ReadAll, net.LookupIP) returning:
\* main and every goroutine take the step they are ready for
FairReadme ==
    /\ WF_vars(ScanLine \/ ScanEOF \/ ResolveReadme \/ Launch \/ RangeDone
                  \/ Wait \/ CreateFile \/ Drain)
    /\ WF_vars(\E t \in Tasks : TLSDial(t))
    /\ WF_vars(\E t \in Tasks : GetClient(t))
    /\ WF_vars(\E t \in Tasks : ClientDo(t))
    /\ WF_vars(\E t \in Tasks : ReadAllReadme(t))
    /\ WF_vars(\E t \in Tasks : LookupReadme(t))
    /\ WF_vars(\E t \in Tasks : StoreFinding(t))
    /\ WF_vars(\E t \in Tasks : PutClient(t))

SpecReadmeFair == InitReadme /\ [][NextReadme]_vars /\ FairReadme
SpecMainGo == InitMainGo /\ [][NextMainGo]_vars

-----------------------------------------------------------------------------
(* Properties                                                              *)

\* the probe's HTTP exchange completed and the classifier's lookup failed
Passed(t) ==
    tasks[t].do = "ok" /\ tasks[t].read = "ok" /\ tasks[t].dns = "err"

DistinctNames == \A t, u \in Tasks : t # u => tasks[t].s # tasks[u].s

\* C1: README version. When main has drained the Findings, the drained
\* collection holds exactly one Finding {host, ip} for every probed pair
\* whose HTTP exchange completed and whose name failed the classifier's
\* lookup, also when one name passed on two IPs.
C1_EveryPassedPairDrained ==
    pcMain = "done" =>
        \A t \in Tasks :
            Passed(t) =>
                Cardinality({f \in output : f.Host = tasks[t].s /\ f.IP = tasks[t].i}) = 1

\* C2: README version. N probe tasks with pairwise distinct names that all
\* complete their exchange and all fail the classifier's lookup leave
\* exactly N Findings in the drain, one per probe, whatever the order of
\* their finalResults.Store calls.
C2_NoLostInsertion ==
    (pcMain = "done" /\ DistinctNames /\ \A t \in Tasks : Passed(t)) =>
        /\ Cardinality(output) = Len(tasks)
        /\ \A t \in Tasks :
              \E f \in output : f.Host = tasks[t].s /\ f.IP = tasks[t].i

C2_Witness ==
    /\ pcMain = "done" /\ Len(tasks) >= 2 /\ DistinctNames
    /\ \A t \in Tasks : Passed(t)
    /\ Cardinality(output) = Len(tasks)

\* C3: slice version. When main writes the output file, every Finding a
\* probe task appended is in finalResults: the length is the number of
\* probes that appended, and each of them is found in it.
C3_EveryAppendKept ==
    pcMain = "done" =>
        /\ Len(output) = Cardinality({t \in Tasks : tasks[t].stored})
        /\ \A t \in Tasks :
              tasks[t].stored =>
                  \E k \in 1..Len(output) :
                      output[k].Host = tasks[t].s /\ output[k].IP = tasks[t].i

\* C4: versions on http.DefaultTransport. Whenever the HTTP client has
\* dialed for the request of probe (name, ip), it dialed ip:443.
C4_DialsOwnIP ==
    \A t \in Tasks :
        tasks[t].dialAddr # <<>> => tasks[t].dialAddr = tasks[t].i \o PORT

\* C5: no outcome of a probe's steps makes a probe task panic.
C5_NoProbePanics == ~panicked

\* C6: a probe whose TLS dial failed has ended, dialed once, took no
\* client, built and sent no request, did not run the classifier and
\* stored no Finding.
C6_ConnectFailedIsFinal ==
    \A t \in Tasks :
        tasks[t].tls = "err" =>
            /\ tasks[t].pc = "done"
            /\ tasks[t].tlsDials = 1
            /\ tasks[t].client = 0
            /\ tasks[t].req = "" /\ tasks[t].do = ""
            /\ tasks[t].dns = ""
            /\ ~tasks[t].stored

C6_Witness ==
    /\ pcMain = "done"
    /\ \E t, u \in Tasks : tasks[t].tls = "err" /\ tasks[u].stored

\* C7: README version. A probe whose response completed and whose name
\* resolved in the classifier's lookup stores nothing, and every stored
\* Finding was stored by a probe of that host and IP whose lookup failed.
C7_ResolvedNeverStored ==
    /\ \A t \in Tasks :
          tasks[t].dns = "ok" =>
              ~tasks[t].stored /\ tasks[t].pc \in {"put", "done"}
    /\ \A h \in DOMAIN finalResults :
          \E t \in Tasks :
              /\ tasks[t].s = h /\ tasks[t].i = finalResults[h].IP
              /\ tasks[t].dns = "err" /\ tasks[t].stored

C7_Witness ==
    /\ pcMain = "done"
    /\ \E t, u \in Tasks :
          /\ tasks[t].do = "ok" /\ tasks[t].read = "ok" /\ tasks[t].dns = "ok"
          /\ tasks[u].stored

\* C8: a probe whose request construction, request send or body read
\* failed never runs the classifier and never stores a Finding.
C8_FailedExchangeNotClassified ==
    \A t \in Tasks :
        (tasks[t].req = "err" \/ tasks[t].do = "err" \/ tasks[t].read = "err") =>
            tasks[t].dns = "" /\ ~tasks[t].stored

\* the tokens of a line, and the lines that yield a record
Tokens(raw) == Split(TrimSpace(raw), SP)
LinesRead == SubSeq(input, 1, lineNo)

RECURSIVE FirstSeen(_)
\* a sequence without the repetitions of its values, in first-seen order
FirstSeen(q) ==
    IF q = <<>> THEN <<>>
    ELSE LET front == FirstSeen(SubSeq(q, 1, Len(q) - 1))
         IN  IF q[Len(q)] \in Range(front) THEN front ELSE Append(front, q[Len(q)])

RECURSIVE Pick(_, _)
\* the [host, san] pairs of the lines with at least two tokens, in order
Pick(lines, k) ==
    IF k > Len(lines) THEN <<>>
    ELSE LET tk == Tokens(lines[k])
         IN  (IF Len(tk) >= 2
                 THEN <<[host |-> tk[1], san |-> Trim(tk[2], {"[", "]"})]>>
                 ELSE <<>>) \o Pick(lines, k + 1)

RECURSIVE SansOf(_, _)
SansOf(pairs, h) ==
    IF pairs = <<>> THEN <<>>
    ELSE (IF Head(pairs).host = h THEN <<Head(pairs).san>> ELSE <<>>)
             \o SansOf(Tail(pairs), h)

HostsOf(pairs) == [k \in 1..Len(pairs) |-> pairs[k].host]

\* C9: after the parse loop (and after every line of it) the records are
\* one per distinct hostname among the lines with at least two tokens, in
\* first-seen order, and no record's SAN list holds a value twice.
C9_OneRecordPerHost ==
    LET pairs == Pick(LinesRead, 1)
    IN  /\ [k \in 1..Len(tlsxResults) |-> tlsxResults[k].Host]
              = FirstSeen(HostsOf(pairs))
        /\ \A k \in 1..Len(tlsxResults) :
              \A i, j \in 1..Len(tlsxResults[k].SAN) :
                  i # j => tlsxResults[k].SAN[i] # tlsxResults[k].SAN[j]

C9_Witness ==
    LET pairs == Pick(input, 1)
    IN  /\ pcMain = "resolve"
        /\ Len(tlsxResults) = 2
        /\ Len(pairs) = 3
        /\ pairs[1] = pairs[3] /\ pairs[1].host # pairs[2].host

\* C10: README version. After the parse loop the SAN list of the record of
\* hostname h holds every distinct SAN value of the lines whose token 0 is
\* h, in first-seen order.
C10_ReadmeAccumulatesSANs ==
    (version = "readme" /\ pcMain # "parse") =>
        \A k \in 1..Len(tlsxResults) :
            tlsxResults[k].SAN
                = FirstSeen(SansOf(Pick(input, 1), tlsxResults[k].Host))

-----------------------------------------------------------------------------
(* The launch loop                                                         *)

\* SAN x IP in the order of the nested loops
Cross(san, ips) ==
    IF Len(san) = 0 \/ Len(ips) = 0 THEN <<>>
    ELSE [k \in 1..(Len(san) * Len(ips)) |->
            <<san[((k - 1) \div Len(ips)) + 1], ips[((k - 1) % Len(ips)) + 1]>>]

\* the pairs of the records 1..r, given what their hostnames resolved to
RECURSIVE PairsUpTo(_)
PairsUpTo(r) ==
    IF r = 0 THEN <<>>
    ELSE PairsUpTo(r - 1) \o Cross(tlsxResults[r].SAN, resolved[r])

Launched == [t \in Tasks |-> <<tasks[t].s, tasks[t].i>>]

IsPrefix(p, q) == Len(p) <= Len(q) /\ p = SubSeq(q, 1, Len(p))

\* C11: the tasks main has launched are, record after record, exactly one
\* task for each pair of (the record's SAN list) x (the IPs its hostname
\* resolved to): all of them once main has left a record, a part of the
\* record's pairs while it is launching them, and none for a record whose
\* hostname did not resolve. After the loop every record has been handled.
C11_OneTaskPerPair ==
    /\ Len(resolved) <= Len(tlsxResults)
    /\ IF pcMain = "launch"
          THEN /\ IsPrefix(PairsUpTo(Len(resolved) - 1), Launched)
               /\ IsPrefix(Launched, PairsUpTo(Len(resolved)))
          ELSE Launched = PairsUpTo(Len(resolved))
    /\ pcMain = "wait" => Len(resolved) = Len(tlsxResults)

\* main reached wg.Wait() after a record of two SANs on two IPs and a
\* record whose hostname did not resolve
C11_Witness ==
    /\ pcMain = "wait"
    /\ \E r \in 1..Len(resolved) :
          Len(tlsxResults[r].SAN) = 2 /\ Len(resolved[r]) = 2
    /\ \E r \in 1..Len(resolved) : resolved[r] = <<>>
    /\ Len(tasks) = 4

-----------------------------------------------------------------------------
(* The barrier                                                             *)

PastWait == pcMain \in {"create", "drain", "done", "fatal"}

\* C12: README version. The WaitGroup counter is never negative and counts
\* the launched tasks that have not returned; once main is past wg.Wait(),
\* every launched task has returned, and what the drain wrote is the
\* collection as it still is: no Finding was inserted after the drain began.
C12_DrainAfterAllTasks ==
    /\ wg >= 0
    /\ wg = Cardinality({t \in Tasks : tasks[t].pc # "done"})
    /\ PastWait => \A t \in Tasks : tasks[t].pc = "done"
    /\ pcMain = "done" => output = Range(finalResults)

\* main drained a Finding after two tasks returned
C12_Witness ==
    /\ pcMain = "done" /\ Len(tasks) = 2
    /\ \E t \in Tasks : tasks[t].stored
    /\ output # {}

-----------------------------------------------------------------------------
(* The client pool                                                         *)

\* the task took a client from the pool and has not returned
Holds(t) == tasks[t].client # 0 /\ tasks[t].pc # "done"

\* the task's request is in flight on its client
InFlight(t) == tasks[t].pc \in {"do", "read"}

\* C13: README version. A pooled client is held by at most one task at a
\* time and is not in the pool while held, and while a task's request is
\* in flight the DialContext of its client's transport is the closure that
\* task assigned: no other task has written it.
C13_ClientHeldByOneTask ==
    /\ \A t, u \in Tasks :
          Holds(t) /\ Holds(u) /\ t # u => tasks[t].client # tasks[u].client
    /\ \A t \in Tasks : Holds(t) => tasks[t].client \notin clientPool
    /\ \A t \in Tasks :
          InFlight(t) =>
             transports[tasks[t].client].DialContext =
                [set |-> TRUE, s |-> tasks[t].s, i |-> tasks[t].i]

\* a task's request is in flight on a client that another task used before
\* and put back
C13_Witness ==
    \E t, u \in Tasks :
       /\ InFlight(t) /\ tasks[u].pc = "done"
       /\ tasks[u].client = tasks[t].client

-----------------------------------------------------------------------------
(* The title                                                               *)

\* the text strictly between the first "<title>" and the first "</title>";
\* empty when a marker is absent or nothing lies between them
TitleBetween(body) ==
    LET start == Index(body, OPEN)
        end == Index(body, CLOSE)
    IN  IF start = -1 \/ end = -1 \/ end < start + Len(OPEN) THEN <<>>
        ELSE SubSeq(body, start + Len(OPEN) + 1, end)

\* C14: for every response body, "</title>" missing or only before
\* "<title>" included, the extraction does not stop the program and the
\* Finding's title is the text between the first "<title>" and the first
\* "</title>", empty when a marker is absent.
C14_TitleBetweenMarkers ==
    \A t \in Tasks :
       /\ tasks[t].pc # "panic"
       /\ tasks[t].stored =>
             \E f \in Range(finalResults) :
                /\ f.Host = tasks[t].s /\ f.IP = tasks[t].i
                /\ f.Title = TitleBetween(tasks[t].body)

\* what the code keeps of it: a Finding that is stored has that title
StoredTitlesBetweenMarkers ==
    \A t \in Tasks :
       tasks[t].stored =>
          \E f \in Range(finalResults) :
             /\ f.Host = tasks[t].s /\ f.IP = tasks[t].i
             /\ f.Title = TitleBetween(tasks[t].body)

-----------------------------------------------------------------------------
(* End to end                                                              *)

\* the input is the one line `a [a]`, main resolved a to one IP, and the one
\* probe completed its exchange and a failed the classifier's lookup
OneLineScenario ==
    /\ input = <<LineAA>>
    /\ Len(resolved) = 1 /\ Len(resolved[1]) = 1
    /\ Len(tasks) = 1 /\ tasks[1].i = resolved[1][1]
    /\ Passed(1)

\* the Finding of a probe, with the title as the markers give it
FindingOf(t) ==
    [ResponseStatus |-> tasks[t].status, Host |-> tasks[t].s, IP |-> tasks[t].i,
     Title |-> TitleBetween(tasks[t].body)]

\* C15: README version, input `a [a]`. When a resolved to a single IP for
\* main and its probe completed the exchange and failed the classifier's
\* lookup, the run is not cut short and it ends with exactly one Finding:
\* host a, that IP, and the status and title of the response.
C15_OneLineOneFinding ==
    OneLineScenario =>
       /\ ~panicked
       /\ pcMain = "done" => output = {FindingOf(1)}

\* what the code keeps of it: a run that reaches the drain writes that
\* Finding
OneLineDrained ==
    OneLineScenario /\ pcMain = "done" => output = {FindingOf(1)}

-----------------------------------------------------------------------------
(* The connection behind a Finding                                         *)

\* C16: README version. The response a stored Finding {host: s, ip: i}
\* records was received over a connection to i:443, also when the probe's
\* client came back from the pool with an idle connection for s:443 that
\* an earlier probe of s opened to another IP.
C16_FindingFromOwnIP ==
    \A t \in Tasks :
       tasks[t].stored => tasks[t].connAddr = tasks[t].i \o PORT

-----------------------------------------------------------------------------
(* A name that resolves is not reported                                    *)

\* the record a task was launched for, by the order of the launch loop
RecordOf(t) ==
    CHOOSE r \in 1..Len(resolved) :
       Len(PairsUpTo(r - 1)) < t /\ t <= Len(PairsUpTo(r))

\* the lookups of the run so far and whether they resolved: main's, of the
\* stripped hostnames, and the classifier's, of the probed names
MainLookups ==
    { [name |-> StripHost(tlsxResults[r].Host), ok |-> resolved[r] # <<>>] :
         r \in 1..Len(resolved) }

TaskLookups ==
    { [name |-> tasks[t].s, ok |-> tasks[t].dns = "ok"] :
         t \in {u \in Tasks : tasks[u].dns # ""} }

\* DNS has answered the same way for every name
SameAnswers ==
    \A x, y \in MainLookups \cup TaskLookups : x.name = y.name => x.ok = y.ok

\* C17: README version. As long as DNS has answered the same way for every
\* name, no stored Finding has as its host the stripped hostname of the
\* record its probe was launched for.
C17_OwnHostnameNotReported ==
    SameAnswers =>
       \A t \in Tasks :
          tasks[t].stored =>
             tasks[t].s # StripHost(tlsxResults[RecordOf(t)].Host)

\* DNS answered the same way throughout, a record naming itself as SAN was
\* skipped because it did not resolve, and the drain wrote the Finding of
\* the same name probed for another record
C17_Witness ==
    /\ SameAnswers /\ pcMain = "done" /\ output # {}
    /\ \E r \in 1..Len(resolved) :
          /\ resolved[r] = <<>>
          /\ \E k \in 1..Len(tlsxResults[r].SAN) :
                tlsxResults[r].SAN[k] = StripHost(tlsxResults[r].Host)
    /\ \E t \in Tasks :
          tasks[t].stored /\ tasks[t].s # StripHost(tlsxResults[RecordOf(t)].Host)

-----------------------------------------------------------------------------
(* Pairs probed twice                                                      *)

\* C18: in a whole run no two probe tasks are launched for the same
\* (name, ip) pair, also when a SAN is listed under two hostnames that
\* resolve to a common IP; so no two tasks store a Finding for one pair.
C18_EachPairProbedOnce ==
    \A t, u \in Tasks :
       t # u => <<tasks[t].s, tasks[t].i>> # <<tasks[u].s, tasks[u].i>>

-----------------------------------------------------------------------------
(* Termination                                                             *)

\* C19: README version, under fair scheduling and with every blocking
\* network operation returning: the run eventually passes wg.Wait() and
\* reaches serialization.
C19_ReachesSerialization == <>PastWait

\* what the code keeps of it: a run in which no goroutine panics passes
\* wg.Wait()
ReachesSerializationUnlessPanic == <>(PastWait \/ panicked)

====
